---- MODULE Spec2Model ----
(***************************************************************************)
(* A model of bm (simple-bm.go): the bookmark store kept in Redis, the     *)
(* check / clean / revive / purge / import commands that read and rewrite  *)
(* it, the bounded concurrent prober (checkDeadLinks, removeDeadLinks),    *)
(* and the functions removeDuplicates, findDuplicates and urlHealthy.      *)
(*                                                                         *)
(* Spec      : the store and the commands, one CLI invocation at a time;   *)
(*             saveBookmarksClassified is taken one Redis command at a     *)
(*             time; reads may fail.                                       *)
(* SpecFail  : Spec, and each write of saveBookmarksClassified may fail.   *)
(* SpecProbe : one call of checkDeadLinks or removeDeadLinks, the          *)
(*             dispatcher loop and the worker goroutines interleaved.      *)
(* SpecProbeFair : SpecProbe on lists of up to MaxFairN records, with      *)
(*             every goroutine that can run being run in the end.          *)
(* SpecPure  : one call of removeDuplicates (and a second call on its      *)
(*             result), findDuplicates, urlHealthy, getAllBookmarks or     *)
(*             getFromZSet, on any argument.                               *)
(***************************************************************************)
EXTENDS Integers, Sequences, FiniteSets, TLC

\* ------------------------------------------------------------------ bounds
\* created_at ranges over 1..MaxTime
MaxTime == 2
\* at most MaxFail Redis writes fail in one behaviour
MaxFail == 1
\* the prober is given at most MaxN records
MaxN == 3
\* --concurrency ranges over 0..MaxConc
MaxConc == 2
\* removeDuplicates and findDuplicates are given at most MaxLen records
MaxLen == 4
\* --limit ranges over 1..MaxLimit
MaxLimit == 2
\* the longest list the prober is given where its termination is checked
MaxFairN == 2

URLs == {"a", "b"}

\* byte order of the URL strings (Redis orders equal scores by member bytes)
UrlRank == [u \in URLs |-> IF u = "a" THEN 1 ELSE 2]

\* type Bookmark: the fields the commands read
Bookmark == [url : URLs, created_at : 1..MaxTime]

VARIABLES
    store,      \* the six Redis keys
    pc,         \* position of the running command
    cmd,        \* the command being run
    result,     \* what the command returned: "none", "ok", "err", "notfound"
    bookmarks,  \* cleanBookmarks: bookmarks (the records read)
    active,     \* cleanBookmarks: activeBookmarks
    deadList,   \* saveBookmarksClassified: dead
    verdict,    \* the URLs the prober finds healthy during this run
    si,         \* saveBookmarksClassified: the next Redis command to issue
    errs,       \* Redis write errors returned and discarded in this command
    nfail,      \* Redis writes that have failed so far, in any command
    pre,        \* the store as it was when the command started
    kept,       \* URLs a partition held after a successful clean, with only
                \* cleans and revives since
    unique,     \* cleanBookmarks: uniqueBookmarks; removeDuplicates: unique
    twice,      \* what removeDuplicates returns when given unique
    duplicates, \* checkBookmarks: duplicates; findDuplicates: duplicates
    deadFound,  \* checkBookmarks: deadLinks
    nprobe,     \* calls of urlHealthy made by the command
    arg,        \* deadReviveCmd: url, "" when the command takes none
    rerr,       \* a Redis read error was discarded in this command
    limit,      \* listBookmarks: the flag --limit
    incDead,    \* listBookmarks: includeDead
    shown,      \* listBookmarks: the bookmarks printed
    cleaned,    \* a clean has succeeded, and no import has run since
    headOut,    \* urlHealthy: what client.Head returned
    getOut,     \* urlHealthy: what client.Do returns for the ranged GET
    reqErr,     \* urlHealthy: http.NewRequest fails
    healthy,    \* urlHealthy: the value returned
    requests,   \* urlHealthy: the requests sent, in order
    pmode,      \* "check" (checkDeadLinks) or "validate" (removeDeadLinks)
    input,      \* the prober's argument bookmarks
    conc,       \* the prober's argument concurrency
    ppc,        \* position of the dispatching goroutine
    di,         \* the range loop's index, from 1
    sem,        \* number of tokens in the channel sem
    wg,         \* the WaitGroup's counter
    wk,         \* position of the goroutine started for each record
    okv,        \* what urlHealthy returned for each record
    mutex,      \* the goroutine holding deadMutex, 0 when unlocked
    loc,        \* the slice each goroutine read for its append
    deadLinks,  \* checkDeadLinks: deadLinks
    keep,       \* removeDeadLinks: keep
    wrote,      \* for each slot of keep, the goroutines that wrote it
    progress,   \* the atomic counter progress
    pval,       \* the value p each goroutine got from the counter
    ret,        \* the returned slice
    probes      \* calls of urlHealthy made for each record

listVars == <<limit, incDead, shown>>
localVars == <<unique, twice, duplicates, deadFound, nprobe, arg, rerr, listVars>>
healthVars == <<headOut, getOut, reqErr, healthy, requests>>
storeVars == <<store, pc, cmd, result, bookmarks, active, deadList, verdict,
               si, errs, nfail, pre, kept, localVars, cleaned, healthVars>>
probeVars == <<pmode, input, conc, ppc, di, sem, wg, wk, okv, mutex, loc,
               deadLinks, keep, wrote, progress, pval, ret, probes>>
vars == <<storeVars, probeVars>>

\* --------------------------------------------------------------- helpers
Range(s) == {s[i] : i \in 1..Len(s)}

\* ---------------------------------------------------- the record format
\* json.Marshal(bm): the member string stored in a sorted set
Marshal(bm) == [kind |-> "json", url |-> bm.url, created_at |-> bm.created_at]

\* json.Unmarshal(member, &bm): ok is FALSE when the member does not parse
Unmarshal(m) ==
    IF m.kind = "json"
    THEN [ok |-> TRUE, bm |-> [url |-> m.url, created_at |-> m.created_at]]
    ELSE [ok |-> FALSE, bm |-> [url |-> "a", created_at |-> 1]]

\* ------------------------------------------------------- the Redis keys
RedisBookmarksKey == "bookmarks:index"
RedisURLSetKey == "bookmarks:urls"
RedisBookmarksActiveKey == "bookmarks:active"
RedisBookmarksDeadKey == "bookmarks:dead"
RedisURLSetActive == "bookmarks:urls:active"
RedisURLSetDead == "bookmarks:urls:dead"

Keys == {RedisBookmarksKey, RedisURLSetKey, RedisBookmarksActiveKey,
         RedisBookmarksDeadKey, RedisURLSetActive, RedisURLSetDead}

\* A missing key reads as the empty sorted set or the empty set.
EmptyStore == [k \in Keys |-> {}]

\* DEL key
Del(s, k) == [s EXCEPT ![k] = {}]

\* ZADD key score member: a member already present only has its score replaced
ZAdd(s, k, score, m) ==
    [s EXCEPT ![k] = {e \in @ : e.member # m} \cup {[member |-> m, score |-> score]}]

\* SADD key value
SAdd(s, k, v) == [s EXCEPT ![k] = @ \cup {v}]

\* SREM key value
SRem(s, k, v) == [s EXCEPT ![k] = @ \ {v}]

\* the order of ZRANGE: by score, equal scores by the member's bytes (the
\* "{" that opens a record's JSON comes after the letters of plain text)
ZBefore(e, f) ==
    \/ e.score < f.score
    \/ /\ e.score = f.score
       /\ \/ e.member.kind # "json" /\ f.member.kind = "json"
          \/ /\ (e.member.kind = "json") = (f.member.kind = "json")
             /\ \/ UrlRank[e.member.url] < UrlRank[f.member.url]
                \/ /\ e.member.url = f.member.url
                   /\ e.member.created_at < f.member.created_at

\* ZRANGE key 0 -1 WITHSCORES
RECURSIVE ZRangeWithScores(_)
ZRangeWithScores(z) ==
    IF z = {} THEN <<>>
    ELSE LET first == CHOOSE e \in z : \A f \in z \ {e} : ZBefore(e, f)
         IN <<first>> \o ZRangeWithScores(z \ {first})

\* a scan loop that ends at the first member that does not parse
RECURSIVE ParseAllStopAtMalformed(_)
ParseAllStopAtMalformed(zs) ==
    IF zs = <<>> THEN <<>>
    ELSE LET u == Unmarshal(Head(zs).member)
         IN IF u.ok THEN <<u.bm>> \o ParseAllStopAtMalformed(Tail(zs)) ELSE <<>>

\* the scan loop of getAllBookmarks and getFromZSet: unparseable members skipped
RECURSIVE ParseAll(_)
ParseAll(zs) ==
    IF zs = <<>> THEN <<>>
    ELSE LET u == Unmarshal(Head(zs).member)
         IN (IF u.ok THEN <<u.bm>> ELSE <<>>) \o ParseAll(Tail(zs))

getFromZSet(s, zkey) == ParseAll(ZRangeWithScores(s[zkey]))

getAllBookmarks(s) == getFromZSet(s, RedisBookmarksKey)

\* ------------------------------------------------------- URL equality
\* an equality that takes any two URLs for spellings of one address
SameURLNormalized(u, v) == TRUE

\* bm.URL == url, and bm.URL as the key of a Go map: the strings are equal
SameURL(u, v) == u = v

\* ----------------------------------------------------------- dedupe
\* a dedupe that lets the last occurrence of a URL win
RECURSIVE removeDuplicatesKeepLast(_)
removeDuplicatesKeepLast(bms) ==
    IF bms = <<>> THEN <<>>
    ELSE IF \E i \in 2..Len(bms) : bms[i].url = Head(bms).url
         THEN removeDuplicatesKeepLast(Tail(bms))
         ELSE <<Head(bms)>> \o removeDuplicatesKeepLast(Tail(bms))

\* a dedupe whose seen flag is flipped by every record of the URL, so that
\* every other record of a URL is kept
removeDuplicatesToggle(bms) ==
    LET K == {i \in 1..Len(bms) :
                Cardinality({j \in 1..(i - 1) : bms[j].url = bms[i].url}) % 2 = 0}
    IN [k \in 1..Cardinality(K) |->
          bms[CHOOSE i \in K : Cardinality({h \in K : h <= i}) = k]]

RECURSIVE removeDuplicatesFrom(_, _)
removeDuplicatesFrom(bms, seen) ==
    IF bms = <<>> THEN <<>>
    ELSE IF \E v \in seen : SameURL(v, Head(bms).url)
         THEN removeDuplicatesFrom(Tail(bms), seen)
         ELSE <<Head(bms)>> \o removeDuplicatesFrom(Tail(bms), seen \cup {Head(bms).url})

removeDuplicates(bms) == removeDuplicatesFrom(bms, {})

\* ------------------------------------------- removeDeadLinks, its result
\* keep[i] after the barrier, for a prober that finds exactly H healthy
KeepArray(bms, H) == [i \in 1..Len(bms) |-> bms[i].url \in H]

\* the final loop of removeDeadLinks: the records whose keep slot is set
RECURSIVE CollectKept(_, _, _)
CollectKept(bms, k, i) ==
    IF i > Len(bms) THEN <<>>
    ELSE (IF k[i] THEN <<bms[i]>> ELSE <<>>) \o CollectKept(bms, k, i + 1)

removeDeadLinksResult(bms, H) == CollectKept(bms, KeepArray(bms, H), 1)

\* ------------------------------------------------ saveBookmarksClassified
URLsOf(bms) == {bms[i].url : i \in 1..Len(bms)}

\* a classification that forgets the active filter: every record is dead
ClassifyDeadAll(all, act) == all

\* a classification that looks at the deduplicated records only
ClassifyDeadUniqueOnly(all, act) ==
    SelectSeq(removeDuplicates(all), LAMBDA bm : bm.url \notin URLsOf(act))

\* dead: every record of the full set whose URL is not an active URL
ClassifyDead(all, act) ==
    LET activeURL == URLsOf(act)
    IN SelectSeq(all, LAMBDA bm : ~\E v \in activeURL : SameURL(v, bm.url))

DelOp(k) == [op |-> "Del", key |-> k, score |-> 0, val |-> 0]
\* a ZADD that gives every member the score 0
ZAddOpUnscored(k, bm) == [op |-> "ZAdd", key |-> k, score |-> 0, val |-> Marshal(bm)]

\* ZADD k with Score: float64(bm.CreatedAt), which is exact for the
\* timestamps 1..MaxTime (every int64 up to 2^53 in size is a float64)
ZAddOp(k, bm) == [op |-> "ZAdd", key |-> k, score |-> bm.created_at, val |-> Marshal(bm)]
SAddOp(k, u) == [op |-> "SAdd", key |-> k, score |-> 0, val |-> u]
SRemOp(k, u) == [op |-> "SRem", key |-> k, score |-> 0, val |-> u]

\* a loop that writes the index and leaves the membership set alone
RECURSIVE WriteAllIndexOnly(_, _, _)
WriteAllIndexOnly(bms, zkey, skey) ==
    IF bms = <<>> THEN <<>>
    ELSE <<ZAddOp(zkey, Head(bms))>> \o WriteAllIndexOnly(Tail(bms), zkey, skey)

\* one loop of saveBookmarksClassified: ZAdd zkey, SAdd skey for each record
RECURSIVE WriteAll(_, _, _)
WriteAll(bms, zkey, skey) ==
    IF bms = <<>> THEN <<>>
    ELSE <<ZAddOp(zkey, Head(bms)), SAddOp(skey, Head(bms).url)>>
         \o WriteAll(Tail(bms), zkey, skey)

\* a saveBookmarksClassified that replaces the combined index first
SaveOpsIndexFirst(act, dead) ==
    <<DelOp(RedisBookmarksKey), DelOp(RedisURLSetKey)>>
    \o WriteAll(act, RedisBookmarksKey, RedisURLSetKey)
    \o <<DelOp(RedisBookmarksActiveKey), DelOp(RedisBookmarksDeadKey),
         DelOp(RedisURLSetActive), DelOp(RedisURLSetDead)>>
    \o WriteAll(act, RedisBookmarksActiveKey, RedisURLSetActive)
    \o WriteAll(dead, RedisBookmarksDeadKey, RedisURLSetDead)

\* a saveBookmarksClassified that merges into the partitions it finds
SaveOpsMerge(act, dead) ==
    WriteAll(act, RedisBookmarksActiveKey, RedisURLSetActive)
    \o WriteAll(dead, RedisBookmarksDeadKey, RedisURLSetDead)
    \o <<DelOp(RedisBookmarksKey), DelOp(RedisURLSetKey)>>
    \o WriteAll(act, RedisBookmarksKey, RedisURLSetKey)

\* the Redis commands saveBookmarksClassified issues after its read, in order
SaveOps(act, dead) ==
    <<DelOp(RedisBookmarksActiveKey), DelOp(RedisBookmarksDeadKey),
      DelOp(RedisURLSetActive), DelOp(RedisURLSetDead)>>
    \o WriteAll(act, RedisBookmarksActiveKey, RedisURLSetActive)
    \o WriteAll(dead, RedisBookmarksDeadKey, RedisURLSetDead)
    \o <<DelOp(RedisBookmarksKey), DelOp(RedisURLSetKey)>>
    \o WriteAll(act, RedisBookmarksKey, RedisURLSetKey)

\* the effect of one Redis command that succeeds
ApplyOp(s, o) ==
    CASE o.op = "Del" -> Del(s, o.key)
      [] o.op = "ZAdd" -> ZAdd(s, o.key, o.score, o.val)
      [] o.op = "SAdd" -> SAdd(s, o.key, o.val)
      [] o.op = "SRem" -> SRem(s, o.key, o.val)

RECURSIVE ApplyOps(_, _)
ApplyOps(s, ops) ==
    IF ops = <<>> THEN s ELSE ApplyOps(ApplyOp(s, Head(ops)), Tail(ops))

\* the URLs held by the active or the dead partition, index or membership set
MemberURLs(z) == {Unmarshal(e.member).bm.url : e \in {f \in z : Unmarshal(f.member).ok}}

PartitionURLs(s) ==
    MemberURLs(s[RedisBookmarksActiveKey]) \cup MemberURLs(s[RedisBookmarksDeadKey])
    \cup s[RedisURLSetActive] \cup s[RedisURLSetDead]

\* cleanBookmarks as a function of the store and of the prober's verdicts,
\* when every Redis command succeeds
CleanFn(s, H) ==
    LET all == getAllBookmarks(s)
        act == removeDeadLinksResult(removeDuplicates(all), H)
    IN IF all = <<>> THEN s
       ELSE ApplyOps(s, SaveOps(act, ClassifyDead(all, act)))

\* ---------------------------------------------------------- findDuplicates
\* findDuplicates: urlCount once its first loop has run
urlCount(bms) ==
    [u \in URLsOf(bms) |-> Cardinality({i \in 1..Len(bms) : SameURL(bms[i].url, u)})]

\* a findDuplicates that reports a URL from its third record on
IsDuplicateFromThree(count) == count > 2

\* findDuplicates: the test of its second loop
IsDuplicate(count) == count > 1

\* type DuplicateInfo
DuplicateInfo(u, n) == [URL |-> u, Count |-> n]

\* the sequences that hold each element of S once
Orderings(S) ==
    {q \in [1..Cardinality(S) -> S] : \A x \in S : \E i \in DOMAIN q : q[i] = x}

\* findDuplicates: the slices it can return; the second loop ranges over a
\* map, so the entries come in any order
findDuplicates(bms) ==
    Orderings({DuplicateInfo(u, urlCount(bms)[u]) :
                 u \in {v \in URLsOf(bms) : IsDuplicate(urlCount(bms)[v])}})

\* checkDeadLinks: the records of the slice it returns, when urlHealthy holds
\* of the URLs in H (the slice holds them in the order the goroutines end)
checkDeadLinksResult(bms, H) == {bms[i] : i \in {j \in 1..Len(bms) : bms[j].url \notin H}}

\* -------------------------------------------------------------- urlHealthy
\* the status codes a server answers with
Statuses == {200, 399, 400, 404}

\* what client.Head or client.Do returns: an error, a nil response with no
\* error, or a response with a status code
HTTPOutcomes ==
    {[kind |-> "err", status |-> 0], [kind |-> "nil", status |-> 0]}
      \cup {[kind |-> "resp", status |-> c] : c \in Statuses}

\* a urlHealthy that takes 400 for a healthy answer
StatusOkInclusive(code) == code <= 400

\* urlHealthy: resp.StatusCode < 400
StatusOk(code) == code < 400

HeadRequest == [method |-> "HEAD", range |-> ""]
RangedGet == [method |-> "GET", range |-> "bytes=0-0"]

\* a urlHealthy that sends the ranged GET whatever the HEAD was answered
urlHealthyBothStages(h, rq, g) ==
    [healthy |-> \/ h.kind = "resp" /\ StatusOk(h.status)
                 \/ g.kind = "resp" /\ StatusOk(g.status),
     requests |-> <<HeadRequest, RangedGet>>]

\* urlHealthy(client, rawURL): h is the answer to the HEAD, g the answer to
\* the GET, rq says that http.NewRequest fails
urlHealthy(h, rq, g) ==
    IF h.kind = "resp" /\ StatusOk(h.status)
    THEN [healthy |-> TRUE, requests |-> <<HeadRequest>>]
    ELSE IF rq
    THEN [healthy |-> FALSE, requests |-> <<HeadRequest>>]
    ELSE IF g.kind # "resp"
    THEN [healthy |-> FALSE, requests |-> <<HeadRequest, RangedGet>>]
    ELSE [healthy |-> StatusOk(g.status), requests |-> <<HeadRequest, RangedGet>>]

\* ------------------------------------------------------------ the commands
NoLocals ==
    /\ bookmarks' = <<>>
    /\ active' = <<>>
    /\ deadList' = <<>>
    /\ verdict' = {}
    /\ si' = 0
    /\ errs' = 0
    /\ unique' = <<>>
    /\ twice' = <<>>
    /\ duplicates' = <<>>
    /\ deadFound' = {}
    /\ nprobe' = 0
    /\ arg' = ""
    /\ rerr' = FALSE
    /\ limit' = 0
    /\ incDead' = FALSE
    /\ shown' = <<>>

\* a command is invoked from the shell: the process starts
Start(c) ==
    /\ pc = "idle"
    /\ cmd' = c
    /\ pre' = store

\* the command returned r: the process is about to exit
Return(r) ==
    /\ pc' = "done"
    /\ result' = r

\* the process exits; nothing but the store outlives it
Exit ==
    /\ pc = "done"
    /\ pc' = "idle"
    /\ cmd' = "none"
    /\ result' = "none"
    /\ pre' = store
    /\ NoLocals
    /\ UNCHANGED <<store, nfail, kept, cleaned, healthVars, probeVars>>

\* cleanBookmarks: getAllBookmarks fails
CleanReadFail ==
    /\ Start("clean")
    /\ Return("err")
    /\ UNCHANGED <<store, bookmarks, active, deadList, verdict, si, errs, nfail, kept,
                   localVars, cleaned, healthVars, probeVars>>

\* a cleanBookmarks that rebuilds the partitions from the empty list it read
CleanEmptyRebuilds ==
    /\ Start("clean")
    /\ getAllBookmarks(store) = <<>>
    /\ store' = ApplyOps(store, SaveOps(<<>>, <<>>))
    /\ Return("ok")
    /\ kept' = {}
    /\ cleaned' = TRUE
    /\ UNCHANGED <<bookmarks, active, deadList, verdict, si, errs, nfail,
                   localVars, healthVars, probeVars>>

\* cleanBookmarks: "No bookmarks to clean"
CleanEmpty ==
    /\ Start("clean")
    /\ getAllBookmarks(store) = <<>>
    /\ Return("ok")
    /\ kept' = kept \cup PartitionURLs(store)
    /\ cleaned' = TRUE
    /\ UNCHANGED <<store, bookmarks, active, deadList, verdict, si, errs, nfail,
                   localVars, healthVars, probeVars>>

\* cleanBookmarks up to the call of saveBookmarksClassified: read, dedupe, probe
CleanProbe ==
    /\ Start("clean")
    /\ getAllBookmarks(store) # <<>>
    /\ \E H \in SUBSET URLs :
         /\ verdict' = H
         /\ bookmarks' = getAllBookmarks(store)
         /\ active' = removeDeadLinksResult(removeDuplicates(getAllBookmarks(store)), H)
    /\ unique' = removeDuplicates(getAllBookmarks(store))
    /\ nprobe' = Len(removeDuplicates(getAllBookmarks(store)))
    /\ pc' = "saveRead"
    /\ UNCHANGED <<store, result, deadList, si, errs, nfail, kept, twice, duplicates,
                   deadFound, arg, rerr, listVars,
                   cleaned, healthVars, probeVars>>

\* a saveBookmarksClassified that clears the partitions before its read
SaveReadFailAfterDel ==
    /\ pc = "saveRead"
    /\ Return("err")
    /\ store' = Del(Del(store, RedisBookmarksActiveKey), RedisBookmarksDeadKey)
    /\ UNCHANGED <<cmd, bookmarks, active, deadList, verdict, si, errs, nfail,
                   pre, kept, localVars, cleaned,
                   healthVars, probeVars>>

\* saveBookmarksClassified: its getAllBookmarks fails
SaveReadFail ==
    /\ pc = "saveRead"
    /\ Return("err")
    /\ UNCHANGED <<store, cmd, bookmarks, active, deadList, verdict, si, errs, nfail,
                   pre, kept, localVars, cleaned,
                   healthVars, probeVars>>

\* saveBookmarksClassified: the read and the classification
SaveRead ==
    /\ pc = "saveRead"
    /\ deadList' = ClassifyDead(getAllBookmarks(store), active)
    /\ si' = 1
    /\ pc' = "save"
    /\ UNCHANGED <<store, cmd, result, bookmarks, active, verdict, errs, nfail, pre,
                   kept, localVars, cleaned,
                   healthVars, probeVars>>

\* saveBookmarksClassified: the next Redis command succeeds
SaveStepOk ==
    /\ pc = "save"
    /\ si <= Len(SaveOps(active, deadList))
    /\ store' = ApplyOp(store, SaveOps(active, deadList)[si])
    /\ si' = si + 1
    /\ UNCHANGED <<pc, cmd, result, bookmarks, active, deadList, verdict, errs, nfail,
                   pre, kept, localVars, cleaned,
                   healthVars, probeVars>>

\* saveBookmarksClassified: the next Redis command fails; its error is not read
SaveStepFail ==
    /\ pc = "save"
    /\ si <= Len(SaveOps(active, deadList))
    /\ nfail < MaxFail
    /\ nfail' = nfail + 1
    /\ errs' = errs + 1
    /\ si' = si + 1
    /\ UNCHANGED <<store, pc, cmd, result, bookmarks, active, deadList, verdict, pre,
                   kept, localVars, cleaned,
                   healthVars, probeVars>>

\* saveBookmarksClassified returns nil, and cleanBookmarks after it
SaveReturn ==
    /\ pc = "save"
    /\ si > Len(SaveOps(active, deadList))
    /\ Return("ok")
    /\ kept' = IF errs = 0 THEN kept \cup PartitionURLs(store) ELSE {}
    /\ cleaned' = (errs = 0)
    /\ UNCHANGED <<store, cmd, bookmarks, active, deadList, verdict, si, errs, nfail,
                   pre, localVars, healthVars, probeVars>>

\* a deadPurgeCmd that deletes the dead index and keeps its membership set
PurgeIndexOnly ==
    /\ Start("purge")
    /\ store' = Del(store, RedisBookmarksDeadKey)
    /\ Return("ok")
    /\ kept' = {}
    /\ UNCHANGED <<bookmarks, active, deadList, verdict, si, errs, nfail,
                   localVars, cleaned, healthVars, probeVars>>

\* deadPurgeCmd
Purge ==
    /\ Start("purge")
    /\ store' = Del(Del(store, RedisBookmarksDeadKey), RedisURLSetDead)
    /\ Return("ok")
    /\ kept' = {}
    /\ UNCHANGED <<bookmarks, active, deadList, verdict, si, errs, nfail,
                   localVars, cleaned, healthVars, probeVars>>

\* a deadReviveCmd that leaves the URL in the dead membership set
ReviveOpsNoSRem(bm) ==
    <<ZAddOp(RedisBookmarksActiveKey, bm), SAddOp(RedisURLSetActive, bm.url),
      ZAddOp(RedisBookmarksKey, bm)>>

\* a deadReviveCmd that does not write the combined index
ReviveOpsNoIndex(bm) ==
    <<ZAddOp(RedisBookmarksActiveKey, bm), SAddOp(RedisURLSetActive, bm.url),
      SRemOp(RedisURLSetDead, bm.url)>>

\* a deadReviveCmd that empties the dead index once it has moved the record
ReviveOpsClearsDead(bm) ==
    <<ZAddOp(RedisBookmarksActiveKey, bm), SAddOp(RedisURLSetActive, bm.url),
      SRemOp(RedisURLSetDead, bm.url), ZAddOp(RedisBookmarksKey, bm),
      DelOp(RedisBookmarksDeadKey)>>

\* the Redis commands deadReviveCmd issues for the record it found
ReviveOps(bm) ==
    <<ZAddOp(RedisBookmarksActiveKey, bm), SAddOp(RedisURLSetActive, bm.url),
      SRemOp(RedisURLSetDead, bm.url), ZAddOp(RedisBookmarksKey, bm)>>

\* a scan that takes every row of the dead list for a match
ReviveHitsAny(s, url) ==
    LET dead == getFromZSet(s, RedisBookmarksDeadKey)
    IN {i \in 1..Len(dead) : TRUE}

\* the scan of deadReviveCmd: the positions of the dead list holding url
ReviveHits(s, url) ==
    LET dead == getFromZSet(s, RedisBookmarksDeadKey)
    IN {i \in 1..Len(dead) : SameURL(dead[i].url, url)}

\* deadReviveCmd <url>
Revive(url) ==
    /\ Start("revive")
    /\ LET dead == getFromZSet(store, RedisBookmarksDeadKey)
           hits == ReviveHits(store, url)
       IN IF hits = {}
          THEN /\ Return("notfound")
               /\ store' = store
          ELSE LET first == CHOOSE i \in hits : \A j \in hits : i <= j
               IN /\ store' = ApplyOps(store, ReviveOps(dead[first]))
                  /\ Return("ok")
    /\ arg' = url
    /\ UNCHANGED <<bookmarks, active, deadList, verdict, si, errs, nfail, kept,
                   unique, twice, duplicates, deadFound, nprobe, rerr, listVars, cleaned,
                   healthVars, probeVars>>

\* deadReviveCmd <url>: getFromZSet fails, and its error is not read
ReviveReadFail(url) ==
    /\ Start("revive")
    /\ Return("notfound")
    /\ arg' = url
    /\ rerr' = TRUE
    /\ UNCHANGED <<store, bookmarks, active, deadList, verdict, si, errs, nfail, kept,
                   unique, twice, duplicates, deadFound, nprobe, listVars, cleaned,
                   healthVars, probeVars>>

\* deadReviveCmd <url> run again with the URL of the revive that has just
\* succeeded: that process exits and the next one starts on the store it
\* left; fail tells whether the getFromZSet of the second run fails
ReviveAgain(fail) ==
    /\ pc = "done"
    /\ cmd = "revive"
    /\ result = "ok"
    /\ cmd' = "revive again"
    /\ pre' = store
    /\ rerr' = fail
    /\ LET dead == getFromZSet(store, RedisBookmarksDeadKey)
           hits == IF fail THEN {} ELSE ReviveHits(store, arg)
       IN IF hits = {}
          THEN /\ Return("notfound")
               /\ store' = store
          ELSE LET first == CHOOSE i \in hits : \A j \in hits : i <= j
               IN /\ store' = ApplyOps(store, ReviveOps(dead[first]))
                  /\ Return("ok")
    /\ UNCHANGED <<bookmarks, active, deadList, verdict, si, errs, nfail, kept,
                   unique, twice, duplicates, deadFound, nprobe, arg, listVars, cleaned,
                   healthVars, probeVars>>

\* ImportBookmarks, one item of the file: skipped when its URL is in the URL set
Import(bm) ==
    /\ Start("import")
    /\ IF bm.url \in store[RedisURLSetKey]
       THEN store' = store
       ELSE store' = ZAdd(SAdd(store, RedisURLSetKey, bm.url), RedisBookmarksKey,
                          bm.created_at, Marshal(bm))
    /\ Return("ok")
    /\ kept' = {}
    /\ cleaned' = FALSE
    /\ UNCHANGED <<bookmarks, active, deadList, verdict, si, errs, nfail,
                   localVars, healthVars, probeVars>>

\* listBookmarks: a getFromZSet fails
ListReadFail(n, d) ==
    /\ Start("list")
    /\ limit' = n
    /\ incDead' = d
    /\ Return("err")
    /\ UNCHANGED <<store, bookmarks, active, deadList, verdict, si, errs, nfail, kept,
                   unique, twice, duplicates, deadFound, nprobe, arg, rerr, shown,
                   cleaned, healthVars, probeVars>>

\* listBookmarks with --limit n, and --include-dead when d: the active
\* records, then the dead ones when asked for; the flag limit is not read
List(n, d) ==
    /\ Start("list")
    /\ limit' = n
    /\ incDead' = d
    /\ shown' = IF d THEN getFromZSet(store, RedisBookmarksActiveKey)
                          \o getFromZSet(store, RedisBookmarksDeadKey)
                 ELSE getFromZSet(store, RedisBookmarksActiveKey)
    /\ Return("ok")
    /\ UNCHANGED <<store, bookmarks, active, deadList, verdict, si, errs, nfail, kept,
                   unique, twice, duplicates, deadFound, nprobe, arg, rerr,
                   cleaned, healthVars, probeVars>>

\* filterByQueryTags(items, q, tags): the records of items that match, Q
\* being the records whose title, description and tags match q and tags
filterByQueryTags(items, Q) == SelectSeq(items, LAMBDA bm : bm \in Q)

\* filtered[:limit] when limit > 0 and len(filtered) > limit
Truncate(filtered, n) ==
    IF n > 0 /\ Len(filtered) > n THEN SubSeq(filtered, 1, n) ELSE filtered

\* searchBookmarksCmd with --limit n, and --include-dead when d; fa and fd
\* tell which getFromZSet fails: its error is dropped and its result is nil;
\* any of the records read may match the query
Search(n, d, fa, fd) ==
    /\ Start("search")
    /\ limit' = n
    /\ incDead' = d
    /\ rerr' = (fa \/ (d /\ fd))
    /\ LET act == IF fa THEN <<>> ELSE getFromZSet(store, RedisBookmarksActiveKey)
           dead == IF fd THEN <<>> ELSE getFromZSet(store, RedisBookmarksDeadKey)
           pool == IF d THEN act \o dead ELSE act
       IN \E Q \in SUBSET Range(pool) :
             shown' = Truncate(filterByQueryTags(pool, Q), n)
    /\ Return("ok")
    /\ UNCHANGED <<store, bookmarks, active, deadList, verdict, si, errs, nfail, kept,
                   unique, twice, duplicates, deadFound, nprobe, arg,
                   cleaned, healthVars, probeVars>>

\* deadShowCmd: getFromZSet fails
DeadShowReadFail ==
    /\ Start("dead show")
    /\ Return("err")
    /\ UNCHANGED <<store, bookmarks, active, deadList, verdict, si, errs, nfail, kept,
                   localVars, cleaned, healthVars, probeVars>>

\* a deadShowCmd that drops from the dead partition what it has shown
DeadShowAndDrop ==
    /\ Start("dead show")
    /\ shown' = getFromZSet(store, RedisBookmarksDeadKey)
    /\ store' = Del(Del(store, RedisBookmarksDeadKey), RedisURLSetDead)
    /\ Return("ok")
    /\ UNCHANGED <<bookmarks, active, deadList, verdict, si, errs, nfail, kept,
                   unique, twice, duplicates, deadFound, nprobe, arg, rerr, limit,
                   incDead, cleaned, healthVars, probeVars>>

\* deadShowCmd: the records of the dead index are printed
DeadShow ==
    /\ Start("dead show")
    /\ shown' = getFromZSet(store, RedisBookmarksDeadKey)
    /\ Return("ok")
    /\ UNCHANGED <<store, bookmarks, active, deadList, verdict, si, errs, nfail, kept,
                   unique, twice, duplicates, deadFound, nprobe, arg, rerr, limit,
                   incDead, cleaned, healthVars, probeVars>>

\* CleanDuplicates of the importer: the loop that adds each URL read back
RECURSIVE SAddAll(_, _, _)
SAddAll(s, k, us) ==
    IF us = {} THEN s
    ELSE LET u == CHOOSE v \in us : TRUE
         IN SAddAll(SAdd(s, k, u), k, us \ {u})

\* bc clean (CleanDuplicates of the importer): SMembers fails
CleanDuplicatesReadFail ==
    /\ Start("bc clean")
    /\ Return("err")
    /\ UNCHANGED <<store, bookmarks, active, deadList, verdict, si, errs, nfail, kept,
                   localVars, cleaned, healthVars, probeVars>>

\* bc clean (CleanDuplicates of the importer): reads the URL set, deletes
\* it and adds each URL read back
CleanDuplicates ==
    /\ Start("bc clean")
    /\ store' = SAddAll(Del(store, RedisURLSetKey), RedisURLSetKey, store[RedisURLSetKey])
    /\ Return("ok")
    /\ UNCHANGED <<bookmarks, active, deadList, verdict, si, errs, nfail, kept,
                   localVars, cleaned, healthVars, probeVars>>

\* checkBookmarks: getAllBookmarks fails
CheckReadFail ==
    /\ Start("check")
    /\ Return("err")
    /\ UNCHANGED <<store, bookmarks, active, deadList, verdict, si, errs, nfail, kept,
                   localVars, cleaned, healthVars, probeVars>>

\* checkBookmarks: "No bookmarks found"
CheckEmpty ==
    /\ Start("check")
    /\ getAllBookmarks(store) = <<>>
    /\ Return("ok")
    /\ UNCHANGED <<store, bookmarks, active, deadList, verdict, si, errs, nfail, kept,
                   localVars, cleaned, healthVars, probeVars>>

\* checkBookmarks: read, findDuplicates, checkDeadLinks over the records read
CheckRun ==
    /\ Start("check")
    /\ getAllBookmarks(store) # <<>>
    /\ bookmarks' = getAllBookmarks(store)
    /\ duplicates' \in findDuplicates(getAllBookmarks(store))
    /\ \E H \in SUBSET URLs :
         /\ verdict' = H
         /\ deadFound' = checkDeadLinksResult(getAllBookmarks(store), H)
    /\ nprobe' = Len(getAllBookmarks(store))
    /\ Return("ok")
    /\ UNCHANGED <<store, active, deadList, si, errs, nfail, kept, unique, twice,
                   arg, rerr, listVars, cleaned, healthVars, probeVars>>

HealthIdle ==
    /\ headOut = [kind |-> "err", status |-> 0]
    /\ getOut = [kind |-> "err", status |-> 0]
    /\ reqErr = FALSE
    /\ healthy = FALSE
    /\ requests = <<>>

ProbeIdle ==
    /\ pmode = "none"
    /\ input = <<>>
    /\ conc = 0
    /\ ppc = "none"
    /\ di = 0
    /\ sem = 0
    /\ wg = 0
    /\ wk = <<>>
    /\ okv = <<>>
    /\ mutex = 0
    /\ loc = <<>>
    /\ deadLinks = <<>>
    /\ keep = <<>>
    /\ wrote = <<>>
    /\ progress = 0
    /\ pval = <<>>
    /\ ret = <<>>
    /\ probes = <<>>

\* no command is running
LocalsIdle ==
    /\ pc = "idle"
    /\ cmd = "none"
    /\ result = "none"
    /\ bookmarks = <<>>
    /\ active = <<>>
    /\ deadList = <<>>
    /\ verdict = {}
    /\ si = 0
    /\ errs = 0
    /\ nfail = 0
    /\ kept = {}
    /\ unique = <<>>
    /\ twice = <<>>
    /\ duplicates = <<>>
    /\ deadFound = {}
    /\ nprobe = 0
    /\ arg = ""
    /\ rerr = FALSE
    /\ limit = 0
    /\ incDead = FALSE
    /\ shown = <<>>
    /\ cleaned = FALSE
    /\ HealthIdle

StoreIdle ==
    /\ store = EmptyStore
    /\ pre = EmptyStore
    /\ LocalsIdle

Init == StoreIdle /\ ProbeIdle

Next ==
    \/ \E bm \in Bookmark : Import(bm)
    \/ CleanReadFail
    \/ CleanEmpty
    \/ CleanProbe
    \/ SaveReadFail
    \/ SaveRead
    \/ SaveStepOk
    \/ SaveReturn
    \/ \E url \in URLs : Revive(url)
    \/ \E url \in URLs : ReviveReadFail(url)
    \/ \E fail \in BOOLEAN : ReviveAgain(fail)
    \/ Purge
    \/ CheckReadFail
    \/ CheckEmpty
    \/ CheckRun
    \/ CleanDuplicatesReadFail
    \/ CleanDuplicates
    \/ \E n \in 1..MaxLimit, d \in BOOLEAN : ListReadFail(n, d)
    \/ \E n \in 1..MaxLimit, d \in BOOLEAN : List(n, d)
    \/ \E n \in 0..MaxLimit, d, fa, fd \in BOOLEAN : Search(n, d, fa, fd)
    \/ DeadShowReadFail
    \/ DeadShow
    \/ Exit

\* every Redis write succeeds
Spec == Init /\ [][Next]_vars

\* Redis writes may fail
NextFail ==
    \/ Next
    \/ SaveStepFail

SpecFail == Init /\ [][NextFail]_vars

\* ------------------ removeDuplicates, findDuplicates, urlHealthy, one call
\* the slices handed to removeDuplicates and findDuplicates
BookmarkSeqs == UNION {[1..n -> Bookmark] : n \in 0..MaxLen}

\* removeDuplicates(bookmarks)
CallRemoveDuplicates ==
    /\ pc = "call"
    /\ unique' = removeDuplicates(bookmarks)
    /\ pc' = "removeDuplicates"
    /\ UNCHANGED <<store, cmd, result, bookmarks, active, deadList, verdict, si, errs,
                   nfail, pre, kept, twice, duplicates, deadFound, nprobe, arg, rerr,
                   listVars, cleaned, healthVars, probeVars>>

\* removeDuplicates(unique), the slice the first call returned
CallRemoveDuplicatesAgain ==
    /\ pc = "removeDuplicates"
    /\ twice' = removeDuplicates(unique)
    /\ pc' = "removeDuplicatesAgain"
    /\ UNCHANGED <<store, cmd, result, bookmarks, active, deadList, verdict, si, errs,
                   nfail, pre, kept, unique, duplicates, deadFound, nprobe, arg, rerr,
                   listVars, cleaned, healthVars, probeVars>>

\* findDuplicates(bookmarks)
CallFindDuplicates ==
    /\ pc = "call"
    /\ duplicates' \in findDuplicates(bookmarks)
    /\ pc' = "findDuplicates"
    /\ UNCHANGED <<store, cmd, result, bookmarks, active, deadList, verdict, si, errs,
                   nfail, pre, kept, unique, twice, deadFound, nprobe, arg, rerr,
                   listVars, cleaned, healthVars, probeVars>>

\* urlHealthy(client, b.URL) for the one record given, for each answer of
\* the network; a URL that http.NewRequest rejects is one client.Head has
\* rejected too
CallUrlHealthy ==
    /\ pc = "call"
    /\ Len(bookmarks) = 1
    /\ \E h \in HTTPOutcomes, g \in HTTPOutcomes, rq \in BOOLEAN :
         /\ rq => h.kind = "err"
         /\ headOut' = h
         /\ getOut' = g
         /\ reqErr' = rq
         /\ healthy' = urlHealthy(h, rq, g).healthy
         /\ requests' = urlHealthy(h, rq, g).requests
    /\ nprobe' = 1
    /\ pc' = "urlHealthy"
    /\ UNCHANGED <<store, cmd, result, bookmarks, active, deadList, verdict, si, errs,
                   nfail, pre, kept, unique, twice, duplicates, deadFound, arg, rerr,
                   listVars, cleaned, probeVars>>

\* a member that is not the JSON of a record, stored with score t
Malformed(t) == [kind |-> "text", url |-> "b", created_at |-> t]

\* the members a sorted set may hold with their scores: records and others
ScanRows ==
    {[score |-> bm.created_at, member |-> Marshal(bm)] : bm \in Bookmark}
        \cup {[score |-> t, member |-> Malformed(t)] : t \in 1..MaxTime}

\* the stores a scan is called on: one sorted set holds any of the members
ScanStores ==
    {[EmptyStore EXCEPT ![k] = z] :
        k \in {RedisBookmarksKey, RedisBookmarksActiveKey, RedisBookmarksDeadKey},
        z \in SUBSET ScanRows}

\* bookmarks, err := getAllBookmarks()
CallGetAllBookmarks ==
    /\ pc = "call"
    /\ bookmarks = <<>>
    /\ bookmarks' = getAllBookmarks(store)
    /\ result' = "ok"
    /\ pc' = "getAllBookmarks"
    /\ UNCHANGED <<store, cmd, active, deadList, verdict, si, errs,
                   nfail, pre, kept, localVars, cleaned, healthVars, probeVars>>

\* getFromZSet(zkey), as list, search and the dead commands call it
CallGetFromZSet(zkey) ==
    /\ pc = "call"
    /\ bookmarks = <<>>
    /\ shown' = getFromZSet(store, zkey)
    /\ arg' = zkey
    /\ result' = "ok"
    /\ pc' = "getFromZSet"
    /\ UNCHANGED <<store, cmd, bookmarks, active, deadList, verdict, si, errs,
                   nfail, pre, kept, unique, twice, duplicates, deadFound, nprobe,
                   rerr, limit, incDead, cleaned, healthVars, probeVars>>

InitPure ==
    /\ ProbeIdle
    /\ HealthIdle
    /\ \/ bookmarks \in BookmarkSeqs /\ store = EmptyStore
       \/ bookmarks = <<>> /\ store \in ScanStores
    /\ pc = "call"
    /\ cmd = "none"
    /\ result = "none"
    /\ active = <<>>
    /\ deadList = <<>>
    /\ verdict = {}
    /\ si = 0
    /\ errs = 0
    /\ nfail = 0
    /\ pre = EmptyStore
    /\ kept = {}
    /\ unique = <<>>
    /\ twice = <<>>
    /\ duplicates = <<>>
    /\ deadFound = {}
    /\ nprobe = 0
    /\ arg = ""
    /\ rerr = FALSE
    /\ limit = 0
    /\ incDead = FALSE
    /\ shown = <<>>
    /\ cleaned = FALSE

NextPure ==
    \/ CallRemoveDuplicates
    \/ CallRemoveDuplicatesAgain
    \/ CallFindDuplicates
    \/ CallUrlHealthy
    \/ CallGetAllBookmarks
    \/ \E zkey \in {RedisBookmarksActiveKey, RedisBookmarksDeadKey} : CallGetFromZSet(zkey)

\* one call of a function of the commands, on any argument
SpecPure == InitPure /\ [][NextPure]_vars

\* ------------------------------------- checkDeadLinks and removeDeadLinks
\* the URLs and records handed to the prober: created_at is the position,
\* as in a scan of the index in score order
\* The prober never compares URLs, so the lists are taken up to a renaming of
\* the URLs: a URL appears only after every URL before it in ProbeRank has.
\* removeDeadLinks is called on a deduplicated list.
ProbeURLs == {"a", "b", "c"}

ProbeRank == [u \in ProbeURLs |-> IF u = "a" THEN 1 ELSE IF u = "b" THEN 2 ELSE 3]

ProbeInputs(mode) ==
    {s \in UNION {[1..n -> [url : ProbeURLs, created_at : 1..MaxN]] : n \in 0..MaxN} :
        /\ \A i \in 1..Len(s) : s[i].created_at = i
        /\ \A i \in 1..Len(s) : \A u \in ProbeURLs :
              ProbeRank[u] < ProbeRank[s[i].url] => \E j \in 1..(i - 1) : s[j].url = u
        /\ mode = "validate" => \A i, j \in 1..Len(s) : s[i].url = s[j].url => i = j}

N == Len(input)

\* a send on sem that never blocks
SemHasRoomUnbounded == TRUE

\* sem <- struct{}{} can proceed: the channel holds fewer than concurrency tokens
SemHasRoom == sem < conc

\* a Wait that returns at once
WgWaitNoBarrier == TRUE

\* wg.Wait() can return
WgWait == wg = 0

\* a Lock that is always granted
MutexFreeAlways == TRUE

\* deadMutex.Lock() can proceed
MutexFree == mutex = 0

\* the loop variable itself, shared by every goroutine
SlotShared(i) == IF di > N THEN N ELSE di

\* the slot of keep goroutine i writes: its own copy of the loop index
Slot(i) == i

\* the range loop: wg.Add(1)
PWgAdd ==
    /\ ppc = "loop"
    /\ di <= N
    /\ wg' = wg + 1
    /\ ppc' = "acquire"
    /\ UNCHANGED <<pmode, input, conc, di, sem, wk, okv, mutex, loc, deadLinks, keep,
                   wrote, progress, pval, ret, probes, storeVars>>

\* the range loop: sem <- struct{}{}, then the go statement
PAcquire ==
    /\ ppc = "acquire"
    /\ SemHasRoom
    /\ sem' = sem + 1
    /\ wk' = [wk EXCEPT ![di] = "probe"]
    /\ probes' = [probes EXCEPT ![di] = @ + 1]
    /\ di' = di + 1
    /\ ppc' = "loop"
    /\ UNCHANGED <<pmode, input, conc, wg, okv, mutex, loc, deadLinks, keep, wrote,
                   progress, pval, ret, storeVars>>

\* goroutine i: urlHealthy returns ok
PProbeDone(i) ==
    /\ wk[i] = "probe"
    /\ \E ok \in BOOLEAN :
         /\ okv' = [okv EXCEPT ![i] = IF ok THEN "true" ELSE "false"]
         /\ wk' = [wk EXCEPT ![i] =
                     IF pmode = "check"
                     THEN (IF ok THEN "count" ELSE "lock")
                     ELSE (IF ok THEN "write" ELSE "count")]
    /\ UNCHANGED <<pmode, input, conc, ppc, di, sem, wg, mutex, loc, deadLinks, keep,
                   wrote, progress, pval, ret, probes, storeVars>>

\* goroutine i of checkDeadLinks: deadMutex.Lock(), then append reads deadLinks
PLock(i) ==
    /\ wk[i] = "lock"
    /\ MutexFree
    /\ mutex' = i
    /\ loc' = [loc EXCEPT ![i] = deadLinks]
    /\ wk' = [wk EXCEPT ![i] = "append"]
    /\ UNCHANGED <<pmode, input, conc, ppc, di, sem, wg, okv, deadLinks, keep, wrote,
                   progress, pval, ret, probes, storeVars>>

\* goroutine i of checkDeadLinks: deadLinks is assigned, then deadMutex.Unlock()
PAppend(i) ==
    /\ wk[i] = "append"
    /\ deadLinks' = Append(loc[i], input[i])
    /\ mutex' = 0
    /\ wk' = [wk EXCEPT ![i] = "count"]
    /\ UNCHANGED <<pmode, input, conc, ppc, di, sem, wg, okv, loc, keep, wrote,
                   progress, pval, ret, probes, storeVars>>

\* goroutine i of removeDeadLinks: keep[i] = true
PKeep(i) ==
    /\ wk[i] = "write"
    /\ keep' = [keep EXCEPT ![Slot(i)] = TRUE]
    /\ wrote' = [wrote EXCEPT ![Slot(i)] = @ \cup {i}]
    /\ wk' = [wk EXCEPT ![i] = "count"]
    /\ UNCHANGED <<pmode, input, conc, ppc, di, sem, wg, okv, mutex, loc, deadLinks,
                   progress, pval, ret, probes, storeVars>>

\* a counter that is set to 1 by every goroutine
AddInt64Store(p, d) == d

\* atomic.AddInt64(&p, d): the new value, read and written in one step
AddInt64(p, d) == p + d

\* goroutine i: p := atomic.AddInt64(&progress, 1)
PCount(i) ==
    /\ wk[i] = "count"
    /\ progress' = AddInt64(progress, 1)
    /\ pval' = [pval EXCEPT ![i] = AddInt64(progress, 1)]
    /\ wk' = [wk EXCEPT ![i] = "release"]
    /\ UNCHANGED <<pmode, input, conc, ppc, di, sem, wg, okv, mutex, loc, deadLinks,
                   keep, wrote, ret, probes, storeVars>>

\* a goroutine that ends without taking its token back from sem
PReleaseKeepsToken(i) ==
    /\ wk[i] = "release"
    /\ wk' = [wk EXCEPT ![i] = "wgdone"]
    /\ UNCHANGED <<pmode, input, conc, ppc, di, sem, wg, okv, mutex, loc, deadLinks,
                   keep, wrote, progress, pval, ret, probes, storeVars>>

\* goroutine i, deferred: <-sem
PRelease(i) ==
    /\ wk[i] = "release"
    /\ sem' = sem - 1
    /\ wk' = [wk EXCEPT ![i] = "wgdone"]
    /\ UNCHANGED <<pmode, input, conc, ppc, di, wg, okv, mutex, loc, deadLinks, keep,
                   wrote, progress, pval, ret, probes, storeVars>>

\* goroutine i, deferred: wg.Done()
PWgDone(i) ==
    /\ wk[i] = "wgdone"
    /\ wg' = wg - 1
    /\ wk' = [wk EXCEPT ![i] = "done"]
    /\ UNCHANGED <<pmode, input, conc, ppc, di, sem, okv, mutex, loc, deadLinks, keep,
                   wrote, progress, pval, ret, probes, storeVars>>

\* after the loop: wg.Wait(), and the function returns its result
PReturn ==
    /\ ppc = "loop"
    /\ di > N
    /\ WgWait
    /\ ret' = IF pmode = "check" THEN deadLinks ELSE CollectKept(input, keep, 1)
    /\ ppc' = "returned"
    /\ UNCHANGED <<pmode, input, conc, di, sem, wg, wk, okv, mutex, loc, deadLinks,
                   keep, wrote, progress, pval, probes, storeVars>>

\* cleanBookmarks on the return of removeDeadLinks: saveBookmarksClassified
\* on the slice returned (clean does not call the prober on an empty list)
PCallerSave ==
    /\ ppc = "returned"
    /\ pmode = "validate"
    /\ N > 0
    /\ store' = ApplyOps(store, SaveOps(ret, ClassifyDead(getAllBookmarks(store), ret)))
    /\ ppc' = "saved"
    /\ UNCHANGED <<pc, cmd, result, bookmarks, active, deadList, verdict, si, errs,
                   nfail, pre, kept, localVars, cleaned, healthVars,
                   pmode, input, conc, di, sem, wg, wk, okv, mutex, loc, deadLinks,
                   keep, wrote, progress, pval, ret, probes>>

\* the store the caller read the prober's argument from
StoreRead(bms) ==
    [k \in Keys |->
        IF k = RedisBookmarksKey
        THEN {[score |-> bms[i].created_at, member |-> Marshal(bms[i])] : i \in 1..Len(bms)}
        ELSE IF k = RedisURLSetKey THEN URLsOf(bms) ELSE {}]

\* the call: make([]bool, len(bookmarks)), make(chan struct{}, concurrency)
InitProbe ==
    /\ LocalsIdle
    /\ pmode \in {"check", "validate"}
    /\ input \in ProbeInputs(pmode)
    /\ store = StoreRead(input)
    /\ pre = StoreRead(input)
    /\ conc \in 0..MaxConc
    /\ ppc = "loop"
    /\ di = 1
    /\ sem = 0
    /\ wg = 0
    /\ wk = [i \in 1..N |-> "none"]
    /\ okv = [i \in 1..N |-> "none"]
    /\ mutex = 0
    /\ loc = [i \in 1..N |-> <<>>]
    /\ deadLinks = <<>>
    /\ keep = [i \in 1..N |-> FALSE]
    /\ wrote = [i \in 1..N |-> {}]
    /\ progress = 0
    /\ pval = [i \in 1..N |-> 0]
    /\ ret = <<>>
    /\ probes = [i \in 1..N |-> 0]

NextProbe ==
    \/ PWgAdd
    \/ PAcquire
    \/ \E i \in 1..N : PProbeDone(i)
    \/ \E i \in 1..N : PLock(i)
    \/ \E i \in 1..N : PAppend(i)
    \/ \E i \in 1..N : PKeep(i)
    \/ \E i \in 1..N : PCount(i)
    \/ \E i \in 1..N : PRelease(i)
    \/ \E i \in 1..N : PWgDone(i)
    \/ PReturn
    \/ PCallerSave

SpecProbe == InitProbe /\ [][NextProbe]_vars

\* the statements of the dispatcher: the range loop and wg.Wait()
PDispatcher == PWgAdd \/ PAcquire \/ PReturn

\* the statements of goroutine i
PWorker(i) ==
    /\ i \in 1..N
    /\ \/ PProbeDone(i)
       \/ PLock(i)
       \/ PAppend(i)
       \/ PKeep(i)
       \/ PCount(i)
       \/ PRelease(i)
       \/ PWgDone(i)

\* the call, on a list of at most MaxFairN records
InitProbeFair == InitProbe /\ N <= MaxFairN

\* the prober under the Go scheduler: a goroutine that can run is run in the
\* end, and urlHealthy returns within the client's timeout
SpecProbeFair ==
    /\ InitProbeFair
    /\ [][NextProbe]_vars
    /\ WF_vars(PDispatcher)
    /\ \A i \in 1..MaxFairN : WF_vars(PWorker(i))

\* ================================================================ claims
\* the records and URLs a sorted set holds
RecordsIn(z) == {Unmarshal(e.member).bm : e \in {f \in z : Unmarshal(f.member).ok}}

\* the first occurrence of each URL, stated without the code's dedupe
FirstOcc(bms) == {bms[i] : i \in {j \in 1..Len(bms) : \A h \in 1..(j - 1) : bms[h].url # bms[j].url}}

CleanDone == pc = "done" /\ cmd = "clean"

\* clean returned nil and every Redis command it issued succeeded
Successful == CleanDone /\ result = "ok" /\ errs = 0

ActiveIndexURLs == MemberURLs(store[RedisBookmarksActiveKey])
DeadIndexURLs == MemberURLs(store[RedisBookmarksDeadKey])

PartitionInvariant ==
    /\ ActiveIndexURLs \cap DeadIndexURLs = {}
    /\ store[RedisURLSetActive] \cap store[RedisURLSetDead] = {}
    /\ ActiveIndexURLs \cup DeadIndexURLs = {r.url : r \in FirstOcc(bookmarks)}
    /\ store[RedisURLSetActive] \cup store[RedisURLSetDead] = {r.url : r \in FirstOcc(bookmarks)}

\* C1 as stated: after any successful clean the active and dead URL sets are
\* disjoint and their union is the URL set of the deduplicated records read.
C1_Original == Successful => PartitionInvariant

\* C1 amended: after any successful clean that read at least one record, the
\* active and dead URL sets (indices and membership sets) are disjoint and
\* their union is the URL set of the deduplicated records read.
C1_PartitionInvariant == (Successful /\ bookmarks # <<>>) => PartitionInvariant

C1_Witness ==
    /\ Successful
    /\ nfail = 0
    /\ ActiveIndexURLs # {}
    /\ DeadIndexURLs # {}
    /\ Len(bookmarks) > Cardinality(FirstOcc(bookmarks))

\* C2 as stated: after a successful clean the active index holds exactly the
\* first occurrence of every healthy URL and the dead index exactly the first
\* occurrence of every unhealthy URL, so the dead count is the number of
\* distinct unhealthy URLs (taken where no Redis command has ever failed and
\* at least one record was read).
C2_Original ==
    (Successful /\ nfail = 0 /\ bookmarks # <<>>) =>
        /\ RecordsIn(store[RedisBookmarksActiveKey])
             = {r \in FirstOcc(bookmarks) : r.url \in verdict}
        /\ RecordsIn(store[RedisBookmarksDeadKey])
             = {r \in FirstOcc(bookmarks) : r.url \notin verdict}
        /\ Cardinality(store[RedisBookmarksDeadKey])
             = Cardinality(URLsOf(bookmarks) \ verdict)

\* C2 amended: after a successful clean of a non-empty index the active index
\* holds exactly the first occurrence of every healthy URL, the dead index
\* holds every record read (every occurrence) whose URL was unhealthy, and the
\* dead membership set holds exactly the distinct unhealthy URLs.
C2_ReconcileResult ==
    (Successful /\ bookmarks # <<>>) =>
        /\ RecordsIn(store[RedisBookmarksActiveKey])
             = {r \in FirstOcc(bookmarks) : r.url \in verdict}
        /\ Cardinality(store[RedisBookmarksActiveKey])
             = Cardinality(URLsOf(bookmarks) \cap verdict)
        /\ RecordsIn(store[RedisBookmarksDeadKey])
             = {r \in Range(bookmarks) : r.url \notin verdict}
        /\ store[RedisURLSetDead] = URLsOf(bookmarks) \ verdict

\* the scenario of the claim: a unhealthy and stored twice, b healthy
C2_Witness ==
    /\ Successful
    /\ nfail = 0
    /\ verdict = {"b"}
    /\ \E i, j, k \in 1..Len(bookmarks) :
         /\ i < j
         /\ bookmarks[i].url = "a"
         /\ bookmarks[j].url = "a"
         /\ bookmarks[k].url = "b"

\* C3 as stated: a URL held by the active or the dead partition after a
\* successful clean is held by one of them after every later clean or revive,
\* as long as nothing but cleans and revives is run.
C3_NoRecordLost == (pc \in {"idle", "done"}) => kept \subseteq PartitionURLs(store)

\* C4 as stated: a second clean with the same verdicts leaves the store as
\* the first clean left it.
C4_Idempotent == Successful => CleanFn(store, verdict) = store

\* C5 as stated: once a step of the rewrite has failed, the next thing clean
\* does is return the error, with no further Redis command applied.
C5_FailureStops ==
    [][(pc = "save" /\ errs > 0) => (store' = store /\ pc' = "done" /\ result' = "err")]_vars

\* C6: when clean returns the error of a failed read, at its start or at the
\* re-read before the rewrite, every store key is as it was when clean began.
C6_ReadFailureNoMutation == (CleanDone /\ result = "err") => store = pre

\* the re-read failed after the probes, over a store with both partitions filled
C6_Witness ==
    /\ CleanDone
    /\ result = "err"
    /\ bookmarks # <<>>
    /\ store[RedisBookmarksActiveKey] # {}
    /\ store[RedisBookmarksDeadKey] # {}

\* ------------------------------------------------------- the prober's claims
\* (checked under SpecProbe)
\* the probes in flight: goroutines started whose urlHealthy has not returned
InFlight == {i \in 1..N : wk[i] = "probe"}

\* the records whose probe was healthy, unhealthy
Healthy == {i \in 1..N : okv[i] = "true"}
Unhealthy == {i \in 1..N : okv[i] = "false"}

\* C7: with concurrency k >= 1, at most k probes are in flight in every state
\* of checkDeadLinks and of removeDeadLinks.
C7_ConcurrencyBound == conc >= 1 => Cardinality(InFlight) <= conc

\* the ceiling is reached while the dispatcher still has records to start
C7_Witness ==
    /\ conc = 2
    /\ Cardinality(InFlight) = conc
    /\ ppc = "acquire"
    /\ di <= N

\* C8: when the prober returns, every one of the N records has been probed
\* exactly once and its goroutine has run to its end, whatever the verdicts.
C8_Barrier ==
    ppc = "returned" =>
        \A i \in 1..N : wk[i] = "done" /\ probes[i] = 1 /\ okv[i] \in {"true", "false"}

C8_Witness ==
    /\ ppc = "returned"
    /\ N = MaxN
    /\ conc < N
    /\ Unhealthy # {}
    /\ Healthy # {}

\* C9: in validate mode slot s of keep is written by goroutine s only, and the
\* returned list is the subsequence of the input, in input order, of the
\* records whose probe was healthy.
C9_KeepSlots ==
    /\ \A s \in 1..N : wrote[s] \subseteq {s}
    /\ (ppc = "returned" /\ pmode = "validate") =>
          /\ Len(ret) = Cardinality(Healthy)
          /\ \A i \in Healthy : ret[Cardinality({h \in Healthy : h <= i})] = input[i]

\* two healthy records around an unhealthy one, the later probe counted first
C9_Witness ==
    /\ ppc = "returned"
    /\ pmode = "validate"
    /\ N = 3
    /\ Healthy = {1, 3}
    /\ pval[3] < pval[1]

\* C10: in check mode deadLinks is assigned only by the goroutine holding
\* deadMutex, and the returned slice holds each record whose probe was
\* unhealthy exactly once and no other record.
C10_DeadCollector ==
    /\ \A i \in 1..N : wk[i] = "append" => mutex = i
    /\ (ppc = "returned" /\ pmode = "check") =>
          /\ Len(ret) = Cardinality(Unhealthy)
          /\ Range(ret) = {input[i] : i \in Unhealthy}

\* two unhealthy probes appended in the opposite of input order, one healthy
C10_Witness ==
    /\ ppc = "returned"
    /\ pmode = "check"
    /\ Cardinality(Unhealthy) = 2
    /\ Healthy # {}
    /\ \E i, j \in Unhealthy : i < j /\ ret = <<input[j], input[i]>>

\* -------------------------------------------------------------- check
CheckDone == cmd = "check" /\ pc = "done" /\ result = "ok" /\ bookmarks # <<>>

\* C11: when check has run over a non-empty collection, it has probed each
\* distinct URL of the collection exactly once (as many probes as distinct
\* URLs), and no URL has more than one record in the dead result, so that
\* the reported dead count is a count of URLs.
C11_ProbedOncePerURL ==
    CheckDone =>
        /\ nprobe = Cardinality(URLsOf(bookmarks))
        /\ \A u \in URLs : Cardinality({r \in deadFound : r.url = u}) <= 1
        /\ Cardinality(deadFound) = Cardinality({r.url : r \in deadFound})

\* ------------------------------------------------------ revive and purge
\* deadReviveCmd has returned, and its scan read the dead index
ReviveDone == cmd = "revive" /\ pc = "done" /\ ~rerr

PurgeDone == cmd = "purge" /\ pc = "done"

\* the records with URL u in the dead index of the store s
DeadRecords(s, u) == {r \in RecordsIn(s[RedisBookmarksDeadKey]) : r.url = u}

\* the sorted set z once the record r is written to it with score created_at
WithRecord(z, r) ==
    {e \in z : e.member # Marshal(r)} \cup {[score |-> r.created_at, member |-> Marshal(r)]}

\* C12: revive(u), when the dead index holds a record with URL u, reports
\* success and moves one such record (the first of the scan): the active
\* index and the combined index gain that record with score created_at,
\* the active membership set gains u, the dead membership set loses u, and
\* the dead index and the combined URL set are as they were.
C12_ReviveHit ==
    (ReviveDone /\ DeadRecords(pre, arg) # {}) =>
        /\ result = "ok"
        /\ \E r \in DeadRecords(pre, arg) :
             /\ \A q \in DeadRecords(pre, arg) : r.created_at <= q.created_at
             /\ store[RedisBookmarksActiveKey] = WithRecord(pre[RedisBookmarksActiveKey], r)
             /\ store[RedisBookmarksKey] = WithRecord(pre[RedisBookmarksKey], r)
        /\ store[RedisURLSetActive] = pre[RedisURLSetActive] \cup {arg}
        /\ store[RedisURLSetDead] = pre[RedisURLSetDead] \ {arg}
        /\ store[RedisBookmarksDeadKey] = pre[RedisBookmarksDeadKey]
        /\ store[RedisURLSetKey] = pre[RedisURLSetKey]

\* a revive of a URL with two dead records, beside an active record
C12_Witness ==
    /\ ReviveDone
    /\ result = "ok"
    /\ Cardinality(DeadRecords(pre, arg)) = 2
    /\ arg \in pre[RedisURLSetDead]
    /\ pre[RedisBookmarksActiveKey] # {}
    /\ store[RedisBookmarksActiveKey] # pre[RedisBookmarksActiveKey]

\* C13: revive(u), when the dead index holds no record with URL u, reports
\* "not found" and leaves all six keys as they were.
C13_ReviveMiss ==
    (ReviveDone /\ DeadRecords(pre, arg) = {}) =>
        /\ result = "notfound"
        /\ store = pre

\* a miss on a URL that is active, with another URL in the dead index
C13_Witness ==
    /\ ReviveDone
    /\ result = "notfound"
    /\ DeadRecords(pre, arg) = {}
    /\ pre[RedisBookmarksDeadKey] # {}
    /\ arg \in MemberURLs(pre[RedisBookmarksActiveKey])

\* C14: purge leaves the dead index and the dead membership set empty and
\* the other four keys as they were; a revive that finds the dead index
\* empty reports "not found"; and only clean makes an empty dead index
\* non-empty.
C14_Purge ==
    /\ [](PurgeDone =>
            /\ result = "ok"
            /\ store[RedisBookmarksDeadKey] = {}
            /\ store[RedisURLSetDead] = {}
            /\ \A k \in Keys \ {RedisBookmarksDeadKey, RedisURLSetDead} : store[k] = pre[k])
    /\ []((cmd = "revive" /\ pc = "done" /\ pre[RedisBookmarksDeadKey] = {}) =>
            result = "notfound" /\ store = pre)
    /\ [][(store[RedisBookmarksDeadKey] = {} /\ store'[RedisBookmarksDeadKey] # {}) =>
            cmd' = "clean"]_vars

\* a purge of a dead partition that held a record, beside an active record
C14_Witness ==
    /\ PurgeDone
    /\ pre[RedisBookmarksDeadKey] # {}
    /\ pre[RedisURLSetDead] # {}
    /\ store[RedisBookmarksActiveKey] # {}

\* a command boundary after a successful clean, with no import since
Settled == cleaned /\ pc \in {"idle", "done"}

\* C15: at every command boundary reached from a successful clean by
\* cleans, revives and purges, no URL is in both the active and the dead
\* index, and no URL is in both the active and the dead membership set.
C15_PartitionsDisjoint ==
    Settled =>
        /\ ActiveIndexURLs \cap DeadIndexURLs = {}
        /\ store[RedisURLSetActive] \cap store[RedisURLSetDead] = {}

\* C16: at every command boundary reached from a successful clean by
\* cleans, revives and purges, the combined index holds the same rows,
\* and so the same records, as the active index.
C16_CombinedMirrorsActive ==
    Settled =>
        /\ store[RedisBookmarksKey] = store[RedisBookmarksActiveKey]
        /\ RecordsIn(store[RedisBookmarksKey]) = RecordsIn(store[RedisBookmarksActiveKey])

\* a revive after a clean that left an active record
C16_Witness ==
    /\ Settled
    /\ cmd = "revive"
    /\ result = "ok"
    /\ Cardinality(store[RedisBookmarksActiveKey]) >= 2
    /\ store[RedisBookmarksActiveKey] # pre[RedisBookmarksActiveKey]

\* ------------------------------- removeDuplicates, findDuplicates, urlHealthy
\* the positions of bms that hold the first record of their URL
FirstIdx(bms) == {j \in 1..Len(bms) : \A h \in 1..(j - 1) : bms[h].url # bms[j].url}

\* the number of records of bms with URL u
Occurrences(bms, u) == Cardinality({i \in 1..Len(bms) : bms[i].url = u})

AllDistinct(bms) == \A i, j \in 1..Len(bms) : i # j => bms[i].url # bms[j].url

\* C17: removeDuplicates applied to its own result returns that result.
C17_DedupeIdempotent ==
    pc = "removeDuplicatesAgain" => twice = unique

\* three records of one URL deduplicated twice
C17_Witness ==
    /\ pc = "removeDuplicatesAgain"
    /\ Len(bookmarks) = 3
    /\ Occurrences(bookmarks, "a") = 3
    /\ Len(twice) = 1

\* C18: removeDuplicates(S) holds, in the order of S, the first record of
\* each URL of S and nothing else; it is no longer than S, and as long as S
\* exactly when the URLs of S are all distinct.
C18_DedupeFirstOccurrence ==
    pc = "removeDuplicates" =>
        /\ Len(unique) = Cardinality(FirstIdx(bookmarks))
        /\ \A i \in FirstIdx(bookmarks) :
              unique[Cardinality({h \in FirstIdx(bookmarks) : h <= i})] = bookmarks[i]
        /\ Len(unique) <= Len(bookmarks)
        /\ (Len(unique) = Len(bookmarks)) <=> AllDistinct(bookmarks)

\* a later record of the first URL, after a record of another URL
C18_Witness ==
    /\ pc = "removeDuplicates"
    /\ Len(bookmarks) = 3
    /\ bookmarks[1].url = bookmarks[3].url
    /\ bookmarks[1] # bookmarks[3]
    /\ bookmarks[2].url # bookmarks[1].url
    /\ unique = <<bookmarks[1], bookmarks[2]>>

\* C19: findDuplicates(S) holds exactly one entry for each URL with two or
\* more records in S, its Count the number of those records, and no entry
\* for any other URL; it is empty exactly when removeDuplicates(S) is as
\* long as S.
C19_FindDuplicates ==
    pc = "findDuplicates" =>
        /\ \A u \in URLs :
              LET entries == {j \in DOMAIN duplicates : duplicates[j].URL = u}
              IN IF Occurrences(bookmarks, u) >= 2
                 THEN /\ Cardinality(entries) = 1
                      /\ \A j \in entries : duplicates[j].Count = Occurrences(bookmarks, u)
                 ELSE entries = {}
        /\ \A j \in DOMAIN duplicates : duplicates[j].URL \in URLs
        /\ (duplicates = <<>>) <=> (Len(removeDuplicates(bookmarks)) = Len(bookmarks))

\* two URLs with two records each, the one met second in S reported first
C19_Witness ==
    /\ pc = "findDuplicates"
    /\ Len(bookmarks) = 4
    /\ bookmarks[1].url = "a"
    /\ duplicates = <<[URL |-> "b", Count |-> 2], [URL |-> "a", Count |-> 2]>>

\* C20: urlHealthy returns true exactly when the HEAD is answered with a
\* status below 400, or it is not and the ranged GET is sent and answered
\* with a status below 400; it returns false for every other pair of
\* outcomes, and never anything but true or false.
C20_ProbeClassification ==
    pc = "urlHealthy" =>
        LET headOk == headOut.kind = "resp" /\ headOut.status < 400
            getOk == ~reqErr /\ getOut.kind = "resp" /\ getOut.status < 400
        IN /\ healthy \in BOOLEAN
           /\ healthy <=> (headOk \/ (~headOk /\ getOk))

\* a HEAD answered 400 and a ranged GET answered 399
C20_Witness ==
    /\ pc = "urlHealthy"
    /\ headOut = [kind |-> "resp", status |-> 400]
    /\ getOut = [kind |-> "resp", status |-> 399]
    /\ healthy

\* C26: urlHealthy sends the HEAD first and at most one more request, the
\* GET with Range bytes=0-0, and sends that one only when the HEAD was not
\* answered with a status below 400; no request is sent twice.
C26_RequestOrder ==
    pc = "urlHealthy" =>
        LET headOk == headOut.kind = "resp" /\ headOut.status < 400
        IN /\ Len(requests) \in {1, 2}
           /\ requests[1] = [method |-> "HEAD", range |-> ""]
           /\ Len(requests) = 2 =>
                 /\ requests[2] = [method |-> "GET", range |-> "bytes=0-0"]
                 /\ ~headOk
           /\ headOk => Len(requests) = 1

\* a HEAD answered 404, then a ranged GET that fails: two requests, no retry
C26_Witness ==
    /\ pc = "urlHealthy"
    /\ headOut = [kind |-> "resp", status |-> 404]
    /\ getOut.kind = "err"
    /\ Len(requests) = 2
    /\ ~healthy

\* the goroutines that have been started and have not ended
Running == {i \in 1..N : wk[i] \notin {"none", "done"}}

\* C27: no step taken while a probe goroutine is running changes the store,
\* and the store changes only in the caller's step after the prober has
\* returned.
C27_StoreOutsideProbes ==
    [][store' # store => (Running = {} /\ ppc = "returned" /\ ppc' = "saved")]_vars

\* clean has written the partitions after three probes, not all healthy
C27_Witness ==
    /\ ppc = "saved"
    /\ N = 3
    /\ Healthy # {}
    /\ Unhealthy # {}
    /\ store[RedisBookmarksActiveKey] # {}
    /\ store[RedisBookmarksDeadKey] # {}

\* ------------------------------------------------------ the rewrite's order
\* the active partition holds exactly the records clean found active
ActiveWritten ==
    /\ RecordsIn(store[RedisBookmarksActiveKey]) = Range(active)
    /\ store[RedisURLSetActive] = URLsOf(active)

\* the dead partition holds exactly the records clean classified dead
DeadWritten ==
    /\ RecordsIn(store[RedisBookmarksDeadKey]) = Range(deadList)
    /\ store[RedisURLSetDead] = URLsOf(deadList)

\* C28: a step of clean adds a row to the dead index only when the new
\* active partition is completely written, and changes the combined index
\* or the combined URL set only when the new active and dead partitions are
\* both completely written.
C28_RewriteOrder ==
    [][cmd = "clean" =>
        /\ (store'[RedisBookmarksDeadKey] \ store[RedisBookmarksDeadKey] # {}) => ActiveWritten
        /\ (\/ store'[RedisBookmarksKey] # store[RedisBookmarksKey]
            \/ store'[RedisURLSetKey] # store[RedisURLSetKey]) =>
              (ActiveWritten /\ DeadWritten)]_vars

\* the combined index has just been deleted, both new partitions in place
C28_Witness ==
    /\ cmd = "clean"
    /\ pc = "save"
    /\ store[RedisBookmarksKey] = {}
    /\ active # <<>>
    /\ deadList # <<>>
    /\ ActiveWritten
    /\ DeadWritten

\* ----------------------------------------------------------- URL equality
\* C21: URLs are compared as strings. Records whose URLs differ are not
\* collapsed by the dedupe of clean (every URL read is a URL of unique);
\* each duplicate entry of check counts the records of exactly its URL; a
\* record read by clean is classified dead exactly when no active record
\* has its URL; and a revive that succeeds found a dead record of exactly
\* its argument and adds to the active index no record of another URL.
C21_ExactURLEquality ==
    /\ (cmd = "clean" /\ bookmarks # <<>>) => URLsOf(unique) = URLsOf(bookmarks)
    /\ CheckDone =>
          \A j \in DOMAIN duplicates :
              duplicates[j].Count = Occurrences(bookmarks, duplicates[j].URL)
    /\ (cmd = "clean" /\ pc = "save") =>
          \A i \in 1..Len(bookmarks) :
              (bookmarks[i] \in Range(deadList)) <=> (bookmarks[i].url \notin URLsOf(active))
    /\ (ReviveDone /\ result = "ok") =>
          /\ DeadRecords(pre, arg) # {}
          /\ \A r \in RecordsIn(store[RedisBookmarksActiveKey])
                       \ RecordsIn(pre[RedisBookmarksActiveKey]) : r.url = arg

\* a clean that read two records of one URL and one of another, the other
\* URL alone healthy
C21_Witness ==
    /\ cmd = "clean"
    /\ pc = "save"
    /\ Len(bookmarks) = 3
    /\ URLsOf(bookmarks) = URLs
    /\ Len(unique) = 2
    /\ Len(active) = 1
    /\ Len(deadList) = 2

\* ------------------------------------------------------------ exit status
\* C22: a command in which a Redis command failed (a write whose error was
\* returned to the caller, or a read) does not end with a zero exit.
C22_FailureExitsNonZero ==
    (pc = "done" /\ (errs > 0 \/ rerr)) => result # "ok"

\* ------------------------------------------------------------------ import
\* C23: between commands, whatever imports, cleans, revives and purges have
\* run, the combined index holds no two records with the same URL.
C23_ImportPreventsDuplicates ==
    pc \in {"idle", "done"} =>
        \A r, q \in RecordsIn(store[RedisBookmarksKey]) : r.url = q.url => r = q

\* C24: when bc clean has succeeded, the combined index holds at most one
\* record for each URL.
C24_BcCleanRemovesDuplicates ==
    (cmd = "bc clean" /\ pc = "done" /\ result = "ok") =>
        \A r, q \in RecordsIn(store[RedisBookmarksKey]) : r.url = q.url => r = q

\* -------------------------------------------------------------------- list
\* the records list is asked to show: the active ones, and the dead ones
\* with --include-dead
Matching ==
    Cardinality(store[RedisBookmarksActiveKey])
      + (IF incDead THEN Cardinality(store[RedisBookmarksDeadKey]) ELSE 0)

\* C25: list with --limit N > 0 prints min(N, number of matching bookmarks)
\* bookmarks.
C25_ListLimit ==
    (cmd = "list" /\ pc = "done" /\ result = "ok") =>
        Len(shown) = IF limit < Matching THEN limit ELSE Matching

\* ---- C29: a member that does not parse is skipped by every full scan
\* the members of a sorted set that are the JSON of a record
Parseable(z) == {e \in z : e.member.kind = "json"}

\* scan lists exactly the records of the parseable members of z, each once,
\* in the order of the sorted set
ScansParseable(scan, z) ==
    /\ Len(scan) = Cardinality(Parseable(z))
    /\ Range(scan) = {[url |-> e.member.url, created_at |-> e.member.created_at] : e \in Parseable(z)}
    /\ \A i, j \in 1..Len(scan) : i < j =>
           ZBefore([score |-> scan[i].created_at, member |-> Marshal(scan[i])],
                   [score |-> scan[j].created_at, member |-> Marshal(scan[j])])

\* C29: getAllBookmarks and getFromZSet return the records of the members
\* that parse, in order, and no others; a member that does not parse is
\* not returned and not counted, the scan goes on to the members after it,
\* and the scan returns no error
C29_ScanSkipsMalformed ==
    /\ pc = "getAllBookmarks" =>
           (result = "ok" /\ ScansParseable(bookmarks, store[RedisBookmarksKey]))
    /\ pc = "getFromZSet" =>
           (result = "ok" /\ ScansParseable(shown, store[arg]))

\* a scan met a member that does not parse before one that does, and
\* returned the later one
C29_Witness ==
    /\ pc = "getAllBookmarks"
    /\ \E e \in store[RedisBookmarksKey] \ Parseable(store[RedisBookmarksKey]) :
          \E f \in Parseable(store[RedisBookmarksKey]) :
             /\ e.score < f.score
             /\ \E i \in 1..Len(bookmarks) : bookmarks[i] = Unmarshal(f.member).bm
    /\ Len(bookmarks) = 2

\* ---- C30: the partition step classifies the full record set
\* the records of the full set read whose URL no active record has
OutsideActive == {r \in Range(bookmarks) : \A i \in 1..Len(active) : active[i].url # r.url}

\* C30: saveBookmarksClassified classifies dead every record of the full,
\* non-deduplicated set whose URL is not the URL of an active record, later
\* duplicates that removeDuplicates dropped included, and a clean that
\* succeeded has written each of them to the dead index and its URL to the
\* dead URL set
C30_DeadFromFullSet ==
    /\ (cmd = "clean" /\ pc = "save") => Range(deadList) = OutsideActive
    /\ Successful =>
          \A r \in OutsideActive :
             /\ [score |-> r.created_at, member |-> Marshal(r)] \in store[RedisBookmarksDeadKey]
             /\ r.url \in store[RedisURLSetDead]

\* a successful clean wrote to the dead index a later duplicate that
\* removeDuplicates had dropped
C30_Witness ==
    /\ Successful
    /\ \E j \in 1..Len(bookmarks) :
          /\ \E i \in 1..(j - 1) : bookmarks[i].url = bookmarks[j].url
          /\ \A k \in 1..Len(unique) : unique[k] # bookmarks[j]
          /\ bookmarks[j] \in OutsideActive
          /\ bookmarks[j] \in RecordsIn(store[RedisBookmarksDeadKey])

\* ---- C31: a rebuild replaces the partitions
\* the row ZAdd writes for the record r
RowOf(r) == [score |-> r.created_at, member |-> Marshal(r)]

\* the partitions hold what the records read and the verdicts of this run
\* give, and nothing else
PartitionsReplaced ==
    /\ store[RedisBookmarksActiveKey]
         = {RowOf(r) : r \in {q \in FirstOcc(bookmarks) : q.url \in verdict}}
    /\ store[RedisBookmarksDeadKey]
         = {RowOf(r) : r \in {q \in Range(bookmarks) : q.url \notin verdict}}
    /\ store[RedisURLSetActive] = URLsOf(bookmarks) \cap verdict
    /\ store[RedisURLSetDead] = URLsOf(bookmarks) \ verdict

\* C31 as stated: after any successful clean the active and dead partitions
\* are determined by the records read and the verdicts of the run alone, with
\* nothing carried over from the partitions as they were before.
C31_Original == Successful => PartitionsReplaced

\* C31 amended: after a successful clean that read at least one record the
\* active and dead partitions (indices and membership sets) are determined by
\* the records read and the verdicts of the run alone, with nothing carried
\* over from the partitions as they were before.
C31_RebuildReplaces == (Successful /\ bookmarks # <<>>) => PartitionsReplaced

\* a successful clean dropped a row and a URL the dead partition held before
C31_Witness ==
    /\ Successful
    /\ bookmarks # <<>>
    /\ pre[RedisBookmarksDeadKey] \ store[RedisBookmarksDeadKey] # {}
    /\ pre[RedisURLSetDead] \ store[RedisURLSetDead] # {}
    /\ store[RedisBookmarksActiveKey] # {}

\* ---- C32: the progress counter
\* the goroutines whose probe is complete and counted
Counted == {i \in 1..N : wk[i] \in {"release", "wgdone", "done"}}

\* C32: the progress counter is the number of probes completed and counted,
\* every step leaves it as it was or adds one, the values the goroutines
\* report are 1..progress, each once, and the counter is N when the prober
\* has returned
C32_ProgressCounter ==
    /\ [](pmode \in {"check", "validate"} =>
            /\ progress = Cardinality(Counted)
            /\ {pval[i] : i \in Counted} = 1..progress
            /\ \A i, j \in Counted : pval[i] = pval[j] => i = j
            /\ \A i \in (1..N) \ Counted : pval[i] = 0
            /\ ppc \in {"returned", "saved"} => progress = N)
    /\ [][progress' = progress \/ progress' = progress + 1]_vars

\* the prober returned after MaxN probes, the first started counted last
C32_Witness ==
    /\ ppc = "returned"
    /\ N = MaxN
    /\ progress = MaxN
    /\ pval[1] = MaxN
    /\ pval[2] = 1

\* ---- C33: the prober returns
\* C33: with a concurrency of at least 1, goroutines scheduled fairly and
\* every probe returning, the dispatcher that waits to send on sem does send
\* in the end, and the prober returns in the end, whatever the list
C33_ProbeAllReturns ==
    /\ (conc >= 1 /\ ppc = "acquire") ~> (ppc = "loop")
    /\ (conc >= 1 /\ ppc = "loop") ~> (ppc = "returned")

\* the prober returned from MaxFairN probes made one at a time
C33_Witness ==
    /\ ppc = "returned"
    /\ conc = 1
    /\ N = MaxFairN
    /\ \A i \in 1..N : probes[i] = 1

\* ---- C34: a concurrency of 0
\* C34: called with concurrency 0 on at least one record, the prober starts
\* no goroutine and no probe and does not return: the dispatcher is in its
\* first pass of the loop, at wg.Add or at the send on sem, and the store is
\* as the caller read it
C34_ZeroConcurrencyBlocks ==
    (pmode \in {"check", "validate"} /\ conc = 0 /\ N >= 1) =>
        /\ ppc \in {"loop", "acquire"}
        /\ di = 1
        /\ \A i \in 1..N : wk[i] = "none" /\ probes[i] = 0
        /\ progress = 0
        /\ sem = 0
        /\ store = pre

\* the dispatcher stands at its first send on sem, which has no room
C34_Witness ==
    /\ conc = 0
    /\ N >= 1
    /\ ppc = "acquire"
    /\ wg = 1
    /\ ~SemHasRoom

\* ---- C35: the commands that only read
ReadOnlyCmds == {"check", "list", "search", "dead show"}

\* C35: check, list, search and dead show leave every key of the store as
\* it was when the command started, whatever they find and report
C35_ReadOnly == cmd \in ReadOnlyCmds => \A k \in Keys : store[k] = pre[k]

\* a check that found a duplicate and a dead link, over a store with both
\* partitions
C35_Witness ==
    /\ cmd = "check"
    /\ pc = "done"
    /\ duplicates # <<>>
    /\ deadFound # {}
    /\ store[RedisBookmarksActiveKey] # {}
    /\ store[RedisBookmarksDeadKey] # {}

\* ---- C36: revive is idempotent
\* C36: a revive(u) run right after a revive(u) that succeeded, with no
\* other command between the two, leaves every key of the store as the
\* first revive left it, and reports success when its read succeeds
C36_ReviveIdempotent ==
    (cmd = "revive again" /\ pc = "done") =>
        /\ \A k \in Keys : store[k] = pre[k]
        /\ ~rerr => result = "ok"

\* the second revive of a URL the dead index holds two records of, the
\* first revive having moved one of them
C36_Witness ==
    /\ cmd = "revive again"
    /\ pc = "done"
    /\ result = "ok"
    /\ Cardinality(DeadRecords(store, arg)) = 2
    /\ arg \in store[RedisURLSetActive]
    /\ arg \notin store[RedisURLSetDead]

\* ---- C37: the membership sets mirror the indices
\* the URLs of the records the sorted set z of s holds
Projection(s, zkey) == {r.url : r \in RecordsIn(s[zkey])}

\* C37: after a successful clean each membership set is the set of the
\* URLs of the records of its index: bookmarks:urls:active of
\* bookmarks:active, bookmarks:urls:dead of bookmarks:dead, bookmarks:urls
\* of bookmarks:index
C37_SetsMirrorIndices ==
    Successful =>
        /\ store[RedisURLSetActive] = Projection(store, RedisBookmarksActiveKey)
        /\ store[RedisURLSetDead] = Projection(store, RedisBookmarksDeadKey)
        /\ store[RedisURLSetKey] = Projection(store, RedisBookmarksKey)

\* a successful clean of a store whose dead and combined URL sets did not
\* mirror their indices, leaving records in both partitions
C37_Witness ==
    /\ Successful
    /\ pre[RedisURLSetDead] # Projection(pre, RedisBookmarksDeadKey)
    /\ pre[RedisURLSetKey] # Projection(pre, RedisBookmarksKey)
    /\ store[RedisBookmarksActiveKey] # {}
    /\ store[RedisBookmarksDeadKey] # {}

\* ---- C38: clean of an index with no record
\* C38: a clean started while the combined index yields no record probes
\* nothing and leaves every key of the store as it was, the active and dead
\* partitions included, and it returns success, or the error of its read of
\* the index when that read failed
C38_CleanEmptyIsNoOp ==
    (CleanDone /\ getAllBookmarks(pre) = <<>>) =>
        /\ \A k \in Keys : store[k] = pre[k]
        /\ nprobe = 0
        /\ verdict = {}
        /\ si = 0
        /\ result \in {"ok", "err"}

\* a clean that returned success over an empty combined index and a dead
\* partition that holds a record
C38_Witness ==
    /\ CleanDone
    /\ result = "ok"
    /\ pre[RedisBookmarksKey] = {}
    /\ store[RedisBookmarksDeadKey] # {}
    /\ store[RedisURLSetDead] # {}

\* ---- C39: scores are creation times
Indices == {RedisBookmarksActiveKey, RedisBookmarksDeadKey, RedisBookmarksKey}

\* the scan of index zkey lists its records in non-decreasing created_at
ScanInTimeOrder(zkey) ==
    LET scan == getFromZSet(store, zkey)
    IN \A i, j \in 1..Len(scan) : i < j => scan[i].created_at <= scan[j].created_at

\* C39: every row of the active, the dead and the combined index has its
\* record's created_at for score, during and after every clean and revive,
\* so a scan of each index lists the records in non-decreasing created_at;
\* and the rows a revive adds to the active and the combined index are rows
\* of the dead index, score included
C39_ScoreIsCreatedAt ==
    /\ \A zkey \in Indices :
          /\ \A e \in store[zkey] : e.score = e.member.created_at
          /\ ScanInTimeOrder(zkey)
    /\ (ReviveDone /\ result = "ok") =>
          /\ store[RedisBookmarksActiveKey] \ pre[RedisBookmarksActiveKey]
                \subseteq pre[RedisBookmarksDeadKey]
          /\ store[RedisBookmarksKey] \ pre[RedisBookmarksKey]
                \subseteq pre[RedisBookmarksDeadKey]

\* a revive put a record created at MaxTime into an active index written by
\* a clean, after a record created earlier
C39_Witness ==
    /\ ReviveDone
    /\ result = "ok"
    /\ \E e \in store[RedisBookmarksActiveKey] \ pre[RedisBookmarksActiveKey] :
          /\ e.score = MaxTime
          /\ e \in store[RedisBookmarksDeadKey]
    /\ \E f \in pre[RedisBookmarksActiveKey] : f.score < MaxTime
    /\ Len(getFromZSet(store, RedisBookmarksActiveKey)) >= 2

\* the step-by-step clean and CleanFn agree when no Redis command fails
CleanFnAgrees == Successful => store = CleanFn(pre, verdict)

====
